---- MODULE Spec2Model ----
(***************************************************************************)
(* Breadcrumb bar renderer (BreadcrumbsRenderer) and its popup overlay     *)
(* (BreadcrumbPopupContainer).                                             *)
(*                                                                         *)
(* The renderer owns two independent pieces of state: the popup reference  *)
(* driven by togglePopup, and uri/breadcrumbs driven by refresh.  The      *)
(* popup containers own their open flag, their DOM attachment, their       *)
(* document keyup listener and their dispose notification.                 *)
(***************************************************************************)
EXTENDS Integers, Sequences, FiniteSets, TLC

\* ---------------------------------------------------------------- bounds
\* Number of openPopup requests (hence popup containers) over a run.
MaxPopups == 2
\* Number of refresh calls over a run.
MaxRefresh == 3
\* Number of element nodes of a generated element tree.
MaxNodes == 3

\* ------------------------------------------------------------ value sets
\* Breadcrumb ids are strings; the empty string is a string too.
BreadcrumbIds == {"", "a", "b"}
\* What Element.getAttribute returns when the attribute is absent.
Null == "<null>"
\* `this.popup` / `this.uri` when undefined.
NoPopup == 0
Undefined == "undefined"
Uris == {"u1", "u2"}
\* Lists the breadcrumb service may hand back for a uri.
BreadcrumbLists == {<<>>, <<"a">>, <<"", "a", "b">>}
\* CSS classes of Breadcrumbs.Styles that the traversal looks for.
BREADCRUMBS == "theia-breadcrumbs"
BREADCRUMB_ITEM == "theia-breadcrumb-item"
CssClasses == {BREADCRUMBS, BREADCRUMB_ITEM}
Keys == {"Escape", "Esc", "Enter"}

VARIABLES
    popups,     \* the BreadcrumbPopupContainers requested so far, in request order
    popup,      \* BreadcrumbsRenderer.popup: index into popups, or NoPopup
    focus,      \* index of the popup whose container holds the focus, or 0
    lastEvent,  \* the DOM event handled last (click, blur, keyup)
    disposed,   \* BreadcrumbsRenderer.dispose() has run
    uri,        \* BreadcrumbsRenderer.uri
    breadcrumbs,\* BreadcrumbsRenderer.breadcrumbs
    enabled,    \* corePreferences['breadcrumbs.enabled']
    calls,      \* the refresh calls so far, each with its cancellation marker
    refreshCancellationMarker, \* index into calls of the stored marker, 0 = initial marker
    hostCall,   \* index into calls of the host's latest explicit refresh call, 0 = none
    disposedAt, \* number of refresh calls started when dispose() ran
    fired,      \* values fired through onDidChangeActiveStateEmitter
    renders,    \* number of update() runs
    scrollbar,  \* BreadcrumbsRenderer.scrollbar is defined
    dom,        \* the element tree: parent and class list of every node
    found       \* last result of findParentHtmlElement, as <<child, cssClass, result>>

popupVars == <<popups, popup, focus, lastEvent>>
refreshVars == <<uri, breadcrumbs, enabled, calls, refreshCancellationMarker, hostCall,
                 disposedAt, fired, renders, scrollbar>>
domVars == <<dom, found>>
vars == <<popups, popup, focus, lastEvent, disposed, uri, breadcrumbs, enabled, calls,
          refreshCancellationMarker, hostCall, disposedAt, fired, renders, scrollbar,
          dom, found>>

\* ------------------------------------------------------ element traversal
\* Node 0 stands for "no element" (parentElement === null / undefined result).
NoNode == 0

\* child.classList.contains(cssClass)
HasClass(d, n, cssClass) == cssClass \in d.classes[n]

\* A traversal that tests the parent's class list and never the child's own.
RECURSIVE findParentHtmlElementAbove(_, _, _)
findParentHtmlElementAbove(d, child, cssClass) ==
    IF d.parent[child] # NoNode
    THEN IF HasClass(d, d.parent[child], cssClass)
         THEN d.parent[child]
         ELSE findParentHtmlElementAbove(d, d.parent[child], cssClass)
    ELSE NoNode

\* BreadcrumbsRenderer.findParentHtmlElement, on the tree d.
RECURSIVE findParentHtmlElement(_, _, _)
findParentHtmlElement(d, child, cssClass) ==
    IF HasClass(d, child, cssClass)
    THEN child
    ELSE IF d.parent[child] # NoNode
         THEN findParentHtmlElement(d, d.parent[child], cssClass)
         ELSE NoNode

findParentBreadcrumbsHtmlElement(d, child) == findParentHtmlElement(d, child, BREADCRUMBS)

\* The tree the renderer produces: host(1) > ul.theia-breadcrumbs(2) >
\* li.theia-breadcrumb-item(3) > span(4), and an svg icon (5) inside the li,
\* which is an Element but no HTMLElement.
RenderedDom ==
    [parent  |-> [n \in 1..5 |-> CASE n = 1 -> NoNode [] n = 2 -> 1 [] n = 3 -> 2 [] OTHER -> 3],
     classes |-> [n \in 1..5 |-> CASE n = 2 -> {BREADCRUMBS} [] n = 3 -> {BREADCRUMB_ITEM} [] OTHER -> {}],
     html    |-> [n \in 1..5 |-> n # 5]]

\* Elements a click on a breadcrumb can hit.
ClickTargets == {3, 4, 5}

\* parent.lastElementChild of node n's parent: some element child exists.
LastElementChild(d, p) == IF \E c \in DOMAIN d.parent : d.parent[c] = p
                          THEN CHOOSE c \in DOMAIN d.parent :
                                   /\ d.parent[c] = p
                                   /\ \A c2 \in DOMAIN d.parent : d.parent[c2] = p => c2 <= c
                          ELSE NoNode

\* The conditions under which togglePopup reaches breadcrumbsService.openPopup.
CanAnchor(d, target) ==
    /\ target # NoNode /\ d.html[target]
    /\ LET el == findParentBreadcrumbsHtmlElement(d, target)
       IN /\ el # NoNode
          /\ d.parent[el] # NoNode
          /\ LastElementChild(d, d.parent[el]) # NoNode

\* ----------------------------------------------------- popup container
\* A container as requested from openPopup: not constructed yet.  didDispose counts the
\* onDidDisposeEmitter.fire() calls, disposeCalls the dispose() calls, toDisposeDisposed is
\* toDispose.disposed, keyup the document listener, attached the container in its parent.
RequestedPopup(id) ==
    [breadcrumbId |-> id, created |-> FALSE, isOpen |-> FALSE, toDisposeDisposed |-> FALSE,
     attached |-> FALSE, keyup |-> FALSE, didDispose |-> 0, disposeCalls |-> 0,
     resolved |-> FALSE]

\* BreadcrumbPopupContainer.init (with createPopupDiv).
InitPopup(p) == [p EXCEPT !.created = TRUE, !.attached = TRUE, !.keyup = TRUE, !.isOpen = TRUE]

\* dispose() without the `!this.toDispose.disposed` guard.
DisposePopupUnguarded(p) ==
    [p EXCEPT !.disposeCalls = @ + 1, !.didDispose = @ + 1, !.toDisposeDisposed = TRUE,
              !.attached = FALSE, !.isOpen = FALSE, !.keyup = FALSE]

\* dispose() without line 115: the document keyup listener stays registered.
DisposePopupKeepsListener(p) ==
    IF ~p.toDisposeDisposed
    THEN [p EXCEPT !.disposeCalls = @ + 1, !.didDispose = @ + 1, !.toDisposeDisposed = TRUE,
                   !.attached = FALSE, !.isOpen = FALSE]
    ELSE [p EXCEPT !.disposeCalls = @ + 1]

\* BreadcrumbPopupContainer.dispose.
DisposePopup(p) ==
    IF ~p.toDisposeDisposed
    THEN [p EXCEPT !.disposeCalls = @ + 1, !.didDispose = @ + 1, !.toDisposeDisposed = TRUE,
                   !.attached = FALSE, !.isOpen = FALSE, !.keyup = FALSE]
    ELSE [p EXCEPT !.disposeCalls = @ + 1]

\* A string used as a condition.
Truthy(s) == s # Null /\ s # ""

\* The elements focus can move to when a container blurs.  isElement: relatedTarget is an
\* HTMLElement; attr: its data-breadcrumb-id; inside: the container contains it.
RelatedTargets ==
    {[isElement |-> FALSE, attr |-> Null, inside |-> FALSE]} \cup
    [isElement : {TRUE}, attr : BreadcrumbIds \cup {Null}, inside : BOOLEAN]

\* Another popup's container, or any element outside without the attribute.
OutsideElement == [isElement |-> TRUE, attr |-> Null, inside |-> FALSE]

\* BreadcrumbPopupContainer.onBlur: "keep" (clicked own breadcrumb), "refocus" or "dispose".
OnBlurOutcome(related, breadcrumbId) ==
    IF related.isElement
    THEN IF Truthy(related.attr) /\ related.attr = breadcrumbId
         THEN "keep"
         ELSE IF related.inside THEN "refocus" ELSE "dispose"
    ELSE "dispose"

\* escFunction that knows 'Escape' only.
EscDisposesEscapeOnly(key) == key = "Escape"

\* BreadcrumbPopupContainer.escFunction: the key disposes.
EscDisposes(key) == key = "Escape" \/ key = "Esc"

\* onBlur applied to container p.
OnBlur(p, related) ==
    IF OnBlurOutcome(related, p.breadcrumbId) = "dispose" THEN DisposePopup(p) ELSE p

\* container.focus() on popup i while focus is at f: the container that loses the focus
\* gets a blur whose relatedTarget is the container gaining it.
FocusContainer(ps, f, i) ==
    IF f # 0 /\ f # i THEN [ps EXCEPT ![f] = OnBlur(@, OutsideElement)] ELSE ps


\* The flag `openPopup` of togglePopup: whether a popup is to be requested.
ShouldOpenPopup(wasOpen, openBreadcrumbId, clickedId) ==
    IF wasOpen THEN openBreadcrumbId # clickedId ELSE TRUE

\* togglePopup without the else branch `this.popup = undefined`.
PopupAfterToggleKept(wasOpen, current) == current

\* `this.popup` after the first branch of togglePopup: kept when it was open, else cleared.
PopupAfterToggle(wasOpen, current) == IF wasOpen THEN current ELSE NoPopup

\* No DOM event was handled in the step.
NoEvent == [type |-> "none", id |-> Null, p |-> 0, related |-> OutsideElement]

\* Focus after containers were removed: a removed element holds no focus.
FocusAfter(ps, f) == IF f # 0 /\ ~ps[f].attached THEN 0 ELSE f

\* BreadcrumbsRenderer.togglePopup(breadcrumb, event), event.nativeEvent.target = target:
\* the click handler of a rendered breadcrumb, while the renderer is mounted.
TogglePopup(breadcrumbId, target) ==
    /\ ~disposed
    /\ \E k \in DOMAIN breadcrumbs : breadcrumbs[k] = breadcrumbId
    /\ LET wasOpen == popup # NoPopup /\ popups[popup].isOpen
           closed == IF wasOpen THEN [popups EXCEPT ![popup] = DisposePopup(@)] ELSE popups
           openPopup == ShouldOpenPopup(wasOpen,
                                        IF wasOpen THEN popups[popup].breadcrumbId ELSE Null,
                                        breadcrumbId)
           request == openPopup /\ CanAnchor(dom, target)
       IN /\ request => Len(popups) < MaxPopups
          /\ popups' = IF request THEN Append(closed, RequestedPopup(breadcrumbId)) ELSE closed
          /\ popup' = PopupAfterToggle(wasOpen, popup)
          /\ focus' = FocusAfter(closed, focus)
    /\ lastEvent' = [type |-> "click", id |-> breadcrumbId, p |-> target, related |-> OutsideElement]
    /\ UNCHANGED <<disposed, refreshVars, domVars>>

\* The popup container of request i is constructed: init() runs and takes the focus.
PopupInit(i) ==
    /\ i \in DOMAIN popups
    /\ ~popups[i].created
    /\ popups' = [FocusContainer(popups, focus, i) EXCEPT ![i] = InitPopup(@)]
    /\ focus' = i
    /\ lastEvent' = NoEvent
    /\ UNCHANGED <<popup, disposed, refreshVars, domVars>>

\* The promise of request i resolves: `.then(popup => { this.popup = popup; })`.
OpenPopupResolved(i) ==
    /\ i \in DOMAIN popups
    /\ popups[i].created /\ ~popups[i].resolved
    /\ popups' = [popups EXCEPT ![i].resolved = TRUE]
    /\ popup' = i
    /\ lastEvent' = NoEvent
    /\ UNCHANGED <<focus, disposed, refreshVars, domVars>>

\* The focused container i loses the focus to `related`: result.onblur.
Blur(i, related) ==
    /\ i \in DOMAIN popups
    /\ focus = i
    /\ popups' = [popups EXCEPT ![i] = OnBlur(@, related)]
    /\ focus' = IF OnBlurOutcome(related, popups[i].breadcrumbId) = "refocus" THEN i ELSE 0
    /\ lastEvent' = [type |-> "blur", id |-> Null, p |-> i, related |-> related]
    /\ UNCHANGED <<popup, disposed, refreshVars, domVars>>

\* The user moves the focus into the attached container i (tabIndex = 0).
FocusPopup(i) ==
    /\ i \in DOMAIN popups
    /\ popups[i].attached /\ focus # i
    /\ popups' = FocusContainer(popups, focus, i)
    /\ focus' = i
    /\ lastEvent' = NoEvent
    /\ UNCHANGED <<popup, disposed, refreshVars, domVars>>

\* A keyup on the document: every registered escFunction runs.
KeyUp(key) ==
    /\ \E i \in DOMAIN popups : popups[i].keyup
    /\ popups' = [i \in DOMAIN popups |->
                    IF popups[i].keyup /\ EscDisposes(key) THEN DisposePopup(popups[i])
                    ELSE popups[i]]
    /\ focus' = FocusAfter(popups', focus)
    /\ lastEvent' = [type |-> "keyup", id |-> key, p |-> 0, related |-> OutsideElement]
    /\ UNCHANGED <<popup, disposed, refreshVars, domVars>>

\* BreadcrumbsRenderer.dispose(), called once by the owner of the renderer.
RendererDispose ==
    /\ ~disposed
    /\ disposed' = TRUE
    /\ popups' = IF popup # NoPopup THEN [popups EXCEPT ![popup] = DisposePopup(@)] ELSE popups
    /\ focus' = FocusAfter(popups', focus)
    /\ scrollbar' = FALSE
    /\ disposedAt' = Len(calls)
    /\ lastEvent' = NoEvent
    /\ UNCHANGED <<popup, uri, breadcrumbs, enabled, calls, refreshCancellationMarker,
                   hostCall, fired, renders, domVars>>

\* ------------------------------------------------------------- refresh
\* `get active()`.
Active(list) == Len(list) # 0

\* refresh without line 91: the stored marker is left alone.
CancelStoredNot(cs, m) == cs

\* Line 91: the stored marker is canceled (marker 0 is the initial { canceled: true }).
CancelStored(cs, m) == IF m # 0 THEN [cs EXCEPT ![m].canceled = TRUE] ELSE cs

\* refresh without line 93: the stored marker stays the old one.
StoredMarkerKept(cs, m) == m

\* Line 93: the marker of the call being started is stored.
StoredMarker(cs, m) == Len(cs) + 1

\* refresh that ignores the preference.
ConsultsServiceAnyPreference(u, en) == u # Undefined

\* The condition under which refresh consults the breadcrumb service.
ConsultsService(u, en) == u # Undefined /\ en

\* refresh without the `wasActive !== isActive` test: every applied refresh fires.
ApplyAlwaysFires(u, list) ==
    /\ uri' = u
    /\ breadcrumbs' = list
    /\ fired' = Append(fired, Active(list))
    /\ renders' = renders + 1
    /\ scrollbar' = TRUE

\* Lines 104-112 of refresh: the result is applied and update() runs.
Apply(u, list) ==
    /\ uri' = u
    /\ breadcrumbs' = list
    /\ fired' = IF Active(breadcrumbs) # Active(list) THEN Append(fired, Active(list)) ELSE fired
    /\ renders' = renders + 1
    /\ scrollbar' = TRUE

\* refresh(u) up to its first suspension, with the preference value en.
Refresh(u, en) ==
    /\ Len(calls) < MaxRefresh
    /\ refreshCancellationMarker' = StoredMarker(calls, refreshCancellationMarker)
    /\ IF ConsultsService(u, en)
       THEN /\ calls' = Append(CancelStored(calls, refreshCancellationMarker),
                               [uri |-> u, canceled |-> FALSE, lookup |-> TRUE,
                                status |-> "pending", result |-> <<>>])
            /\ UNCHANGED <<uri, breadcrumbs, fired, renders, scrollbar>>
       ELSE /\ calls' = Append(CancelStored(calls, refreshCancellationMarker),
                               [uri |-> u, canceled |-> FALSE, lookup |-> FALSE,
                                status |-> "applied", result |-> <<>>])
            /\ Apply(u, <<>>)

\* The host calls refresh(u).
HostRefresh(u) ==
    /\ Refresh(u, enabled)
    /\ hostCall' = Len(calls) + 1
    /\ lastEvent' = NoEvent
    /\ UNCHANGED <<popups, popup, focus, disposed, disposedAt, enabled, domVars>>

\* breadcrumbsService.onDidChangeBreadcrumbs fires for u while the renderer listens.
BreadcrumbsChanged(u) ==
    /\ ~disposed
    /\ uri = u
    /\ Refresh(u, enabled)
    /\ lastEvent' = NoEvent
    /\ UNCHANGED <<popups, popup, focus, disposed, hostCall, disposedAt, enabled, domVars>>

\* The preference 'breadcrumbs.enabled' changes; the renderer, while it listens, refreshes.
PreferenceChanged ==
    /\ enabled' = ~enabled
    /\ IF disposed
       THEN UNCHANGED <<uri, breadcrumbs, calls, refreshCancellationMarker, fired, renders, scrollbar>>
       ELSE Refresh(uri, enabled')
    /\ lastEvent' = NoEvent
    /\ UNCHANGED <<popups, popup, focus, disposed, hostCall, disposedAt, domVars>>

\* getBreadcrumbs of call i resolves with list: refresh resumes at line 100.
LookupResolved(i, list) ==
    /\ i \in DOMAIN calls
    /\ calls[i].status = "pending"
    /\ IF calls[i].canceled
       THEN /\ calls' = [calls EXCEPT ![i].status = "returned", ![i].result = list]
            /\ UNCHANGED <<uri, breadcrumbs, fired, renders, scrollbar>>
       ELSE /\ calls' = [calls EXCEPT ![i].status = "applied", ![i].result = list]
            /\ Apply(calls[i].uri, list)
    /\ lastEvent' = NoEvent
    /\ UNCHANGED <<popups, popup, focus, disposed, enabled, refreshCancellationMarker,
                   hostCall, disposedAt, domVars>>

\* ------------------------------------------------------- element trees
\* Every finite forest on 1..MaxNodes (a parent has a smaller number) with any class lists.
Trees ==
    {[parent |-> pa, classes |-> cl, html |-> [n \in 1..MaxNodes |-> TRUE]] :
        pa \in {f \in [1..MaxNodes -> 0..MaxNodes] : \A n \in 1..MaxNodes : f[n] < n},
        cl \in [1..MaxNodes -> SUBSET CssClasses]}

\* A caller applies findParentHtmlElement to an element of the tree.
Find(child, cssClass) ==
    /\ child \in DOMAIN dom.parent
    /\ found' = <<child, cssClass, findParentHtmlElement(dom, child, cssClass)>>
    /\ found' # found
    /\ UNCHANGED <<popupVars, disposed, refreshVars, dom>>

\* ------------------------------------------------------ specifications
InitState ==
    /\ popups = <<>> /\ popup = NoPopup /\ focus = 0 /\ lastEvent = NoEvent
    /\ disposed = FALSE
    /\ uri = Undefined /\ breadcrumbs = <<>> /\ enabled \in BOOLEAN
    /\ calls = <<>> /\ refreshCancellationMarker = 0 /\ hostCall = 0 /\ disposedAt = 0
    /\ fired = <<>> /\ renders = 0 /\ scrollbar = FALSE
    /\ found = <<NoNode, "", NoNode>>

Init == InitState /\ dom = RenderedDom

InitFind == InitState /\ dom \in Trees

\* The state once refresh("u1") has rendered the list <<"", "a", "b">>.
InitRendered ==
    /\ popups = <<>> /\ popup = NoPopup /\ focus = 0 /\ lastEvent = NoEvent
    /\ disposed = FALSE
    /\ uri = "u1" /\ breadcrumbs = <<"", "a", "b">> /\ enabled = TRUE
    /\ calls = <<[uri |-> "u1", canceled |-> FALSE, lookup |-> TRUE,
                  status |-> "applied", result |-> <<"", "a", "b">>]>>
    /\ refreshCancellationMarker = 1 /\ hostCall = 1 /\ disposedAt = 0
    /\ fired = <<TRUE>> /\ renders = 1 /\ scrollbar = TRUE
    /\ found = <<NoNode, "", NoNode>>
    /\ dom = RenderedDom

NextPopup ==
    \/ \E b \in BreadcrumbIds, t \in ClickTargets : TogglePopup(b, t)
    \/ \E i \in 1..MaxPopups : PopupInit(i)
    \/ \E i \in 1..MaxPopups : OpenPopupResolved(i)
    \/ \E i \in 1..MaxPopups, r \in RelatedTargets : Blur(i, r)
    \/ \E i \in 1..MaxPopups : FocusPopup(i)
    \/ \E k \in Keys : KeyUp(k)
    \/ RendererDispose

NextRefresh ==
    \/ \E u \in Uris \cup {Undefined} : HostRefresh(u)
    \/ \E u \in Uris : BreadcrumbsChanged(u)
    \/ PreferenceChanged
    \/ \E i \in 1..MaxRefresh, l \in BreadcrumbLists : LookupResolved(i, l)
    \/ RendererDispose

NextFind == \E n \in 1..MaxNodes, c \in CssClasses : Find(n, c)

Next == NextPopup \/ NextRefresh \/ NextFind

Spec == Init /\ [][Next]_vars
SpecPopup == InitRendered /\ [][NextPopup]_vars
SpecRefresh == Init /\ [][NextRefresh]_vars
SpecFind == InitFind /\ [][NextFind]_vars


\* ------------------------------------------------------------- claims
OpenPopups == {i \in DOMAIN popups : popups[i].isOpen}

\* The popup a blur or Escape closed in this step while the renderer held it.
SelfClosed(i) ==
    /\ popup = i /\ popups[i].isOpen /\ ~popups'[i].isOpen
    /\ lastEvent'.type \in {"blur", "keyup"}

\* C1: at most one popup container created for the renderer is open at a time.
C1_AtMostOneOpen == Cardinality(OpenPopups) <= 1

\* C3 as stated: when the popup held by the renderer closes itself on blur or Escape,
\* the renderer's popup reference is cleared by that event.
C3_ClearedOnSelfClose ==
    [][\A i \in DOMAIN popups : SelfClosed(i) => popup' = NoPopup]_vars

\* C3 amended: when the popup held by the renderer closes itself on blur or Escape, it
\* fires onDidDispose once and the renderer keeps its reference to the closed popup; a
\* reference to a closed popup is cleared only by a breadcrumb click, and every
\* breadcrumb click that finds the held popup closed clears it.
C3_ClearedOnNextClick ==
    [][/\ \A i \in DOMAIN popups :
              SelfClosed(i) => popup' = i /\ popups'[i].didDispose = popups[i].didDispose + 1
       /\ (popup # NoPopup /\ ~popups[popup].isOpen /\ popup' = NoPopup)
              => lastEvent'.type = "click"
       /\ (popup # NoPopup /\ ~popups[popup].isOpen /\ lastEvent'.type = "click")
              => popup' = NoPopup]_vars

\* C3 witness: the renderer holds a popup that a blur or Escape has just closed.
C3_Witness ==
    /\ popup # NoPopup /\ ~popups[popup].isOpen /\ popups[popup].didDispose = 1
    /\ lastEvent.type \in {"blur", "keyup"}

\* The blur's new focus target is the breadcrumb element that opened popup p.
IsOwnBreadcrumb(related, p) == related.isElement /\ related.attr = p.breadcrumbId
\* The blur's new focus target is an element inside the container.
IsInside(related) == related.isElement /\ related.inside

\* C4: an Escape or Esc keyup disposes every open popup, and a blur of an open popup to
\* a target that is neither its own breadcrumb element nor inside the container disposes
\* it; afterwards isOpen is false and the container is removed from its parent.
C4_DismissedOnBlurOrEscape ==
    [][/\ (lastEvent'.type = "keyup" /\ lastEvent'.id \in {"Escape", "Esc"})
              => \A i \in OpenPopups : ~popups'[i].isOpen /\ ~popups'[i].attached
       /\ (/\ lastEvent'.type = "blur"
           /\ popups[lastEvent'.p].isOpen
           /\ ~IsOwnBreadcrumb(lastEvent'.related, popups[lastEvent'.p])
           /\ ~IsInside(lastEvent'.related))
              => ~popups'[lastEvent'.p].isOpen /\ ~popups'[lastEvent'.p].attached]_vars

\* C4 witness: an 'Esc' keyup has just run and a popup is closed, detached and has
\* fired onDidDispose through its single dispose() call.
C4_Witness ==
    /\ lastEvent.type = "keyup" /\ lastEvent.id = "Esc"
    /\ \E i \in DOMAIN popups :
           /\ popups[i].created /\ ~popups[i].isOpen /\ ~popups[i].attached
           /\ popups[i].didDispose = 1 /\ popups[i].disposeCalls = 1

\* What a click does to the open popup held by the renderer, given whether a request for
\* the clicked breadcrumb is expected.
ClickOnOpenPopup(expectRequest) ==
    /\ ~popups'[popup].isOpen
    /\ popup' = popup
    /\ IF expectRequest
       THEN /\ Len(popups') = Len(popups) + 1
            /\ popups'[Len(popups')].breadcrumbId = lastEvent'.id
       ELSE Len(popups') = Len(popups)

\* C5: a click while the renderer's popup is open closes it; no popup is
\* requested when the clicked breadcrumb is the popup's own, and one is requested for the
\* clicked breadcrumb otherwise.
C5_ToggleAsStated ==
    [][(lastEvent'.type = "click" /\ popup # NoPopup /\ popups[popup].isOpen)
          => ClickOnOpenPopup(popups[popup].breadcrumbId # lastEvent'.id)]_vars

\* Popup state apart from the bookkeeping of calls and of the openPopup promise.
PopupState(p) == [p EXCEPT !.disposeCalls = 0, !.resolved = FALSE]

\* C6: onDidDispose fires exactly once in a popup's lifetime: the dispose that closes the
\* popup fires it, and a dispose() of a disposed popup changes nothing and fires nothing.
C6_DisposedOnce ==
    [][\A i \in DOMAIN popups :
           /\ popups'[i].didDispose <= 1
           /\ (popups[i].isOpen /\ ~popups'[i].isOpen) =>
                  popups[i].didDispose = 0 /\ popups'[i].didDispose = 1
           /\ popups[i].toDisposeDisposed => PopupState(popups'[i]) = PopupState(popups[i])
           /\ (popups'[i].created /\ ~popups'[i].isOpen) => popups'[i].didDispose = 1]_vars

\* C6 witness: dispose() was called on a popup that was disposed already.
C6_Witness ==
    \E i \in DOMAIN popups : popups[i].disposeCalls = 2 /\ popups[i].didDispose = 1

\* C8: a blur of an open popup to an element carrying the popup's own breadcrumb id, or
\* to an element inside the container, leaves it open and fires nothing; in the second
\* case the focus is back on the container.
C8_BlurExceptions ==
    [][(/\ lastEvent'.type = "blur"
        /\ popups[lastEvent'.p].isOpen)
          => LET i == lastEvent'.p
                 kept == popups'[i].isOpen /\ popups'[i].didDispose = popups[i].didDispose
             IN /\ IsOwnBreadcrumb(lastEvent'.related, popups[i]) => kept
                /\ IsInside(lastEvent'.related) => kept /\ focus' = i]_vars


\* The element k steps above n, NoNode past the root.
RECURSIVE Ancestor(_, _, _)
Ancestor(d, n, k) ==
    IF k = 0 \/ n = NoNode THEN n ELSE Ancestor(d, d.parent[n], k - 1)

\* The distances from child at which an element carrying cssClass sits.
Carriers(d, child, cssClass) ==
    {k \in 0..Cardinality(DOMAIN d.parent) :
        Ancestor(d, child, k) # NoNode /\ cssClass \in d.classes[Ancestor(d, child, k)]}

\* The nearest element from child (inclusive) upwards that carries cssClass.
Nearest(d, child, cssClass) ==
    IF Carriers(d, child, cssClass) = {}
    THEN NoNode
    ELSE Ancestor(d, child, CHOOSE k \in Carriers(d, child, cssClass) :
                                \A k2 \in Carriers(d, child, cssClass) : k <= k2)

\* C7: findParentHtmlElement(child, cssClass) yields the nearest element on the path from
\* child (inclusive) to the root that carries cssClass, and undefined when none does.
C7_FindsNearest ==
    found[1] # NoNode => found[3] = Nearest(dom, found[1], found[2])

\* C7 witness: the traversal passed the child and returned an element that is not the
\* last carrier of the class on the path.
C7_Witness ==
    /\ found[1] # NoNode /\ found[3] # NoNode /\ found[3] # found[1]
    /\ Cardinality(Carriers(dom, found[1], found[2])) >= 2

\* The refresh started last.
LastCall == calls[Len(calls)]
AllResolved == \A i \in DOMAIN calls : calls[i].status # "pending"

\* The lookup of call i returns in this step.
Returns(i) == calls[i].status = "pending" /\ calls'[i].status # "pending"

\* C2: a lookup that returns after a later refresh has started changes neither uri nor
\* breadcrumbs, fires nothing and renders nothing; once every lookup has returned, uri
\* and breadcrumbs are those of the refresh started last.
C2_StaleGuard ==
    [][/\ \A i \in DOMAIN calls :
              (Returns(i) /\ i < Len(calls)) => UNCHANGED <<uri, breadcrumbs, fired, renders>>
       /\ (calls' # <<>> /\ AllResolved')
              => uri' = LastCall'.uri /\ breadcrumbs' = LastCall'.result]_vars

\* C2 witness: the lookup of a superseded refresh has returned another list than the one
\* the last refresh applied.
C2_Witness ==
    /\ Len(calls) = 2 /\ AllResolved
    /\ calls[1].lookup /\ calls[2].lookup
    /\ calls[1].status = "returned" /\ calls[1].result # <<>>
    /\ calls[1].uri # calls[2].uri
    /\ calls[1].result # calls[2].result
    /\ breadcrumbs = calls[2].result /\ uri = calls[2].uri

Uncanceled == {i \in DOMAIN calls : ~calls[i].canceled}

\* C9: at most one refresh call holds an uncanceled marker, the call started last, whose
\* marker is the stored one; starting a refresh cancels the marker of the call started
\* before it; a canceled marker stays canceled.
C9_SingleLiveMarker ==
    [][/\ Cardinality(Uncanceled') <= 1
       /\ \A i \in Uncanceled' : i = Len(calls') /\ i = refreshCancellationMarker'
       /\ \A i \in DOMAIN calls : calls[i].canceled => calls'[i].canceled
       /\ \A i \in DOMAIN calls : Len(calls') > Len(calls) => calls'[i].canceled]_vars

\* C9 witness: a refresh whose lookup is pending has been canceled by a later refresh.
C9_Witness ==
    /\ Len(calls) >= 2
    /\ calls[1].canceled /\ calls[1].status = "pending"
    /\ ~LastCall.canceled /\ refreshCancellationMarker = Len(calls)

\* C10: a refresh called with no uri, or with the preference off, consults no service
\* and is applied within the call: uri is the argument, breadcrumbs is empty, active is
\* false; and while it is the refresh started last, no lookup returning later changes
\* that.
C10_ImmediateEmptyRefresh ==
    [][/\ (Len(calls') > Len(calls) /\ (LastCall'.uri = Undefined \/ ~enabled'))
              => /\ ~LastCall'.lookup /\ LastCall'.status = "applied"
                 /\ \A i \in DOMAIN calls : calls'[i].status = calls[i].status
                 /\ uri' = LastCall'.uri /\ breadcrumbs' = <<>> /\ ~Active(breadcrumbs')
       /\ (calls' # <<>> /\ ~LastCall'.lookup)
              => uri' = LastCall'.uri /\ breadcrumbs' = <<>>]_vars

\* C10 witness: the lookup of an earlier refresh has returned a non-empty list after a
\* refresh with the preference off emptied the bar.
C10_Witness ==
    /\ Len(calls) = 2 /\ ~calls[2].lookup /\ calls[2].uri # Undefined
    /\ calls[1].status = "returned" /\ calls[1].result # <<>>
    /\ breadcrumbs = <<>> /\ uri = calls[2].uri


\* C11: isOpen is true from the end of init until the first dispose and false ever after;
\* the keyup listener is registered and the container is attached exactly while isOpen is
\* true; nothing that happens after the dispose changes the popup.
C11_OpenFlagTiedToResources ==
    [][\A i \in DOMAIN popups' :
           /\ popups'[i].isOpen = popups'[i].keyup
           /\ popups'[i].isOpen = popups'[i].attached
           /\ popups'[i].isOpen = (popups'[i].created /\ ~popups'[i].toDisposeDisposed)
           /\ i \in DOMAIN popups =>
                  /\ (~popups[i].created /\ popups'[i].created) => popups'[i].isOpen
                  /\ (popups[i].created /\ ~popups[i].isOpen) =>
                         /\ ~popups'[i].isOpen
                         /\ PopupState(popups'[i]) = PopupState(popups[i])]_vars

\* C11 witness: a keyup was delivered to an open popup while another popup, whose listener
\* is gone, stayed closed and detached.
C11_Witness ==
    /\ lastEvent.type = "keyup"
    /\ \E i, j \in DOMAIN popups :
           /\ popups[i].created /\ ~popups[i].isOpen /\ ~popups[i].keyup /\ ~popups[i].attached
           /\ popups[j].isOpen /\ popups[j].keyup /\ popups[j].attached


\* C12: onDidChangeActiveStateEmitter.fire is called exactly when an applied refresh
\* changes whether the list is non-empty, with the new value; the fired values alternate
\* starting with true, the last one equals active, and a superseded refresh fires nothing.
C12_ActiveStateEvents ==
    [][/\ IF Active(breadcrumbs') # Active(breadcrumbs)
          THEN fired' = Append(fired, Active(breadcrumbs'))
          ELSE fired' = fired
       /\ \A k \in DOMAIN fired' : fired'[k] = (k % 2 = 1)
       /\ Active(breadcrumbs') = (fired' # <<>> /\ fired'[Len(fired')])
       /\ \A i \in DOMAIN calls : (Returns(i) /\ i < Len(calls)) => fired' = fired]_vars

\* C12 witness: true and then false were fired, and a superseded lookup that returned a
\* non-empty list fired nothing.
C12_Witness ==
    /\ fired = <<TRUE, FALSE>> /\ ~Active(breadcrumbs)
    /\ \E i \in DOMAIN calls : calls[i].status = "returned" /\ calls[i].result # <<>>


\* C13: when the host's latest explicit call is refresh(u) with breadcrumbs enabled, then
\* once every lookup has returned (the preference being enabled), uri is u and
\* breadcrumbs are the result of a lookup for u made by that call or after it.
C13_HostRefreshWins ==
    (hostCall # 0 /\ calls[hostCall].lookup /\ AllResolved /\ enabled)
        => /\ uri = calls[hostCall].uri
           /\ \E i \in hostCall..Len(calls) :
                  calls[i].lookup /\ calls[i].uri = uri /\ breadcrumbs = calls[i].result


\* Every openPopup promise has resolved.
NoRequestPending == \A i \in DOMAIN popups : popups[i].resolved

\* C14: when the renderer's popup reference is defined and no openPopup request is
\* pending, it refers to the popup of the latest request; and the renderer never holds an
\* older popup while a newer popup it opened is open.
C14_HoldsLatestPopup ==
    /\ (popup # NoPopup /\ NoRequestPending) => popup = Len(popups)
    /\ popup # NoPopup => \A j \in DOMAIN popups : j > popup => ~popups[j].isOpen

\* C15: once dispose() has run and every openPopup promise has resolved, no popup opened
\* by the renderer is open.
C15_NoPopupAfterDispose ==
    (disposed /\ NoRequestPending) => OpenPopups = {}


\* C16: after dispose() a lookup that was in flight when dispose() ran leaves uri and
\* breadcrumbs alone, fires nothing, renders nothing and creates no scrollbar; and only
\* an explicit call of the host starts a refresh.
C16_FrozenAfterDispose ==
    [][disposed =>
           /\ \A i \in DOMAIN calls :
                  (Returns(i) /\ i <= disposedAt)
                      => UNCHANGED <<uri, breadcrumbs, fired, renders, scrollbar>>
           /\ Len(calls') > Len(calls) => hostCall' = Len(calls')]_vars

====
